---- MODULE Spec2Model ----
(***************************************************************************)
(* Weekly production scheduling as a MILP: the model builder               *)
(* (ProductionOptimizer.build_model, ConstraintManager), the solver call   *)
(* (ProductionOptimizer.solve), the solution extractor                     *)
(* (ProductionOptimizer.extract_solution) and the line-constraint          *)
(* configuration (LineConstraintConfig).                                   *)
(*                                                                         *)
(* Times are integers counting tenths of an hour (0.4h = 4, 1h = 10), so   *)
(* that every time of the source (0.4h default changeover, 0.5h rules,     *)
(* 2.5h default cleanup) is exact.  Continuous solver variables range over *)
(* a grid of such values.  Binary variables indexed by a position or an    *)
(* offset are kept as the set of indices whose variable is 1.              *)
(***************************************************************************)
EXTENDS Integers, Sequences, FiniteSets, TLC

VARIABLES
    cat,               \* the catalogue and order the optimizer was built from
    cfgs,              \* the LineConstraintConfig objects: "own" and "ext"
    line_constraints,  \* optimizer.line_constraints: which object it refers to
    last_error,        \* outcome of the most recent add_line_constraint call
    calls,             \* number of add_line_constraint calls made
    model,             \* optimizer.model with the constraints it holds
    status,            \* optimizer.model.status (the solver's verdict)
    sol,               \* the solved values of optimizer.variables
    last_solve,        \* return value of solve since the last build_model
    extracted,         \* return value of extract_solution since then
    weights,           \* optimizer.weights: entry name -> weight, in tenths
    target_utilization_rate,  \* optimizer.target_utilization_rate, per cent
    target_argument,   \* argument of the latest set_utilization_target call
    builds             \* number of build_model calls made

\* what the caller sets besides the line constraints
settings == <<weights, target_utilization_rate, target_argument>>

vars == <<cat, cfgs, line_constraints, last_error, calls, model, status, sol,
          last_solve, extracted, weights, target_utilization_rate,
          target_argument, builds>>

(***************************************************************************)
(* Bounds of the model.                                                    *)
(***************************************************************************)
\* production_time is explored on the grid 0, step, ..., MaxSteps * step
MaxSteps == 4
\* add_line_constraint calls explored before build_model
MaxLineConstraints == 1
\* add_line_constraint calls explored when the configuration alone is
MaxCalls == 2
\* build_model calls counted; later ones leave the count where it is
MaxBuilds == 2

(***************************************************************************)
(* Program constants.                                                      *)
(***************************************************************************)
MAX_POSITIONS == 3
MIN_PRODUCTION_TIME == 1
MAX_CHANGEOVERS == 5
MAX_PRODUCTS_IN_SLOT == 3
\* 0.4h, the changeover time used when no rule matches
DEFAULT_CHANGEOVER == 4
\* 1.0h and 2.5h, the setup and cleanup times of a line without its own
DEFAULT_SETUP == 10
DEFAULT_CLEANUP == 25
\* 2.5h + 0.6h, the fixed time the dynamic utilization target assumes
ESTIMATED_FIXED_TIME == 31
\* target_utilization_rate of a new optimizer, in per cent
TARGET_UTILIZATION_RATE == 99

Hours(h) == 10 * h

Range(s) == {s[i] : i \in DOMAIN s}

RECURSIVE SumOver(_, _)
SumOver(S, f) ==
    IF S = {} THEN 0
    ELSE LET x == CHOOSE y \in S : TRUE
         IN  f[x] + SumOver(S \ {x}, f)

\* ceil(a / b) for a >= 0, b > 0
CeilDiv(a, b) == (a + b - 1) \div b

\* the functions f on the keys D with f[k] \in dom[k]
RECURSIVE DepFun(_, _)
DepFun(D, dom) ==
    IF D = {} THEN {<<>>}
    ELSE LET k == CHOOSE y \in D : TRUE
         IN  {(k :> v) @@ f : v \in dom[k], f \in DepFun(D \ {k}, dom)}

(***************************************************************************)
(* Catalogues: what the ontology layer hands to the optimizer.  rate is    *)
(* the CT rate (units per minute, 0: the line cannot make the product),    *)
(* order the target in boxes, items the items per box, rules the           *)
(* changeover rules that match a pair of products on a line.               *)
(***************************************************************************)
\* one product whose order needs 2h, over two slots of 2h
CatSplit ==
    [name |-> "split", products |-> <<"P1", "P2">>, lines |-> <<"L1">>,
     max_hours |-> <<20, 20>>,
     rate |-> (<<"P1", "L1">> :> 1) @@ (<<"P2", "L1">> :> 0),
     tracks |-> [l \in {"L1"} |-> 1],
     items |-> [p \in {"P1", "P2"} |-> 60],
     order |-> ("P1" :> 2) @@ ("P2" :> 1),
     setup |-> [l \in {"L1"} |-> 0], cleanup |-> [l \in {"L1"} |-> 0],
     rules |-> <<>>,
     step |-> 10]

\* one product needing 3h, more than the single 2h slot, on two lines
CatWide ==
    [name |-> "wide", products |-> <<"P1">>, lines |-> <<"L1", "L2">>,
     max_hours |-> <<20>>,
     rate |-> (<<"P1", "L1">> :> 1) @@ (<<"P1", "L2">> :> 1),
     tracks |-> [l \in {"L1", "L2"} |-> 1],
     items |-> [p \in {"P1"} |-> 60],
     order |-> [p \in {"P1"} |-> 3],
     setup |-> [l \in {"L1", "L2"} |-> 0],
     cleanup |-> [l \in {"L1", "L2"} |-> 0],
     rules |-> <<>>,
     step |-> 10]

\* a product with nothing ordered beside one with 1h ordered
CatZero ==
    [name |-> "zero", products |-> <<"P1", "P2">>, lines |-> <<"L1">>,
     max_hours |-> <<20, 20>>,
     rate |-> (<<"P1", "L1">> :> 1) @@ (<<"P2", "L1">> :> 1),
     tracks |-> [l \in {"L1"} |-> 1],
     items |-> [p \in {"P1", "P2"} |-> 60],
     order |-> ("P1" :> 1) @@ ("P2" :> 0),
     setup |-> [l \in {"L1"} |-> 0], cleanup |-> [l \in {"L1"} |-> 0],
     rules |-> <<>>,
     step |-> 10]

\* one product whose order needs 1h, over two slots of 2h; the other
\* product cannot run on the line
CatShort ==
    [name |-> "short", products |-> <<"P1", "P2">>, lines |-> <<"L1">>,
     max_hours |-> <<20, 20>>,
     rate |-> (<<"P1", "L1">> :> 1) @@ (<<"P2", "L1">> :> 0),
     tracks |-> [l \in {"L1"} |-> 1],
     items |-> [p \in {"P1", "P2"} |-> 60],
     order |-> ("P1" :> 1) @@ ("P2" :> 1),
     setup |-> [l \in {"L1"} |-> 0], cleanup |-> [l \in {"L1"} |-> 0],
     rules |-> <<>>,
     step |-> 10]

\* one product whose order needs 1h, over three slots of 2h
CatThree ==
    [name |-> "three", products |-> <<"P1">>, lines |-> <<"L1">>,
     max_hours |-> <<20, 20, 20>>,
     rate |-> (<<"P1", "L1">> :> 1),
     tracks |-> [l \in {"L1"} |-> 1],
     items |-> [p \in {"P1"} |-> 60],
     order |-> [p \in {"P1"} |-> 1],
     setup |-> [l \in {"L1"} |-> 5], cleanup |-> [l \in {"L1"} |-> 5],
     rules |-> <<>>,
     step |-> 5]

\* 1 line, slots A and B of 10h, P1 needs 6h, P2 needs 3h, P1->P2 = 0.5h;
\* the line has no setup or cleanup time of its own
CatScenario ==
    [name |-> "scenario", products |-> <<"P1", "P2">>, lines |-> <<"L1">>,
     max_hours |-> <<100, 100>>,
     rate |-> (<<"P1", "L1">> :> 1) @@ (<<"P2", "L1">> :> 1),
     tracks |-> [l \in {"L1"} |-> 1],
     items |-> [p \in {"P1", "P2"} |-> 60],
     order |-> ("P1" :> 6) @@ ("P2" :> 3),
     setup |-> <<>>, cleanup |-> <<>>,
     rules |-> (<<"P1", "P2", "L1">> :> 5),
     step |-> 30]

\* one product whose order needs the whole of the single 2h slot, on a line
\* that also needs 0.5h of setup and cleanup in it
CatTight ==
    [name |-> "tight", products |-> <<"P1">>, lines |-> <<"L1">>,
     max_hours |-> <<20>>,
     rate |-> (<<"P1", "L1">> :> 1),
     tracks |-> [l \in {"L1"} |-> 1],
     items |-> [p \in {"P1"} |-> 60],
     order |-> [p \in {"P1"} |-> 2],
     setup |-> [l \in {"L1"} |-> 5], cleanup |-> [l \in {"L1"} |-> 5],
     rules |-> <<>>,
     step |-> 10]

\* two ordered products, neither of which the only active line can make
CatIdle ==
    [name |-> "idle", products |-> <<"P1", "P2">>, lines |-> <<"L1">>,
     max_hours |-> <<20, 20>>,
     rate |-> (<<"P1", "L1">> :> 0) @@ (<<"P2", "L1">> :> 0),
     tracks |-> [l \in {"L1"} |-> 1],
     items |-> [p \in {"P1", "P2"} |-> 60],
     order |-> ("P1" :> 2) @@ ("P2" :> 1),
     setup |-> [l \in {"L1"} |-> 0], cleanup |-> [l \in {"L1"} |-> 0],
     rules |-> <<>>,
     step |-> 10]

\* one product whose order needs 2h, over three slots of 2h
CatGap ==
    [name |-> "gap", products |-> <<"P1">>, lines |-> <<"L1">>,
     max_hours |-> <<20, 20, 20>>,
     rate |-> (<<"P1", "L1">> :> 1),
     tracks |-> [l \in {"L1"} |-> 1],
     items |-> [p \in {"P1"} |-> 60],
     order |-> [p \in {"P1"} |-> 2],
     setup |-> [l \in {"L1"} |-> 0], cleanup |-> [l \in {"L1"} |-> 0],
     rules |-> <<>>,
     step |-> 10]

\* one product whose order needs 2h, on two lines with one slot of 2h
CatBoth ==
    [name |-> "both", products |-> <<"P1">>, lines |-> <<"L1", "L2">>,
     max_hours |-> <<20>>,
     rate |-> (<<"P1", "L1">> :> 1) @@ (<<"P1", "L2">> :> 1),
     tracks |-> [l \in {"L1", "L2"} |-> 1],
     items |-> [p \in {"P1"} |-> 60],
     order |-> [p \in {"P1"} |-> 2],
     setup |-> [l \in {"L1", "L2"} |-> 0],
     cleanup |-> [l \in {"L1", "L2"} |-> 0],
     rules |-> <<>>,
     step |-> 10]

\* P1 needs the whole of a 2h slot, P2 needs 1h, over two slots of 2h
CatFull ==
    [name |-> "full", products |-> <<"P1", "P2">>, lines |-> <<"L1">>,
     max_hours |-> <<20, 20>>,
     rate |-> (<<"P1", "L1">> :> 1) @@ (<<"P2", "L1">> :> 1),
     tracks |-> [l \in {"L1"} |-> 1],
     items |-> [p \in {"P1", "P2"} |-> 60],
     order |-> ("P1" :> 2) @@ ("P2" :> 1),
     setup |-> [l \in {"L1"} |-> 0], cleanup |-> [l \in {"L1"} |-> 0],
     rules |-> <<>>,
     step |-> 10]

\* one product needing 3h in a single slot of 10h, on a line without setup
\* or cleanup time of its own
CatSingle ==
    [name |-> "single", products |-> <<"P1">>, lines |-> <<"L1">>,
     max_hours |-> <<100>>,
     rate |-> (<<"P1", "L1">> :> 1),
     tracks |-> [l \in {"L1"} |-> 1],
     items |-> [p \in {"P1"} |-> 60],
     order |-> [p \in {"P1"} |-> 3],
     setup |-> <<>>, cleanup |-> <<>>,
     rules |-> <<>>,
     step |-> 30]

\* one product ordered for 2 boxes whose items per box are not recorded
CatLoose ==
    [name |-> "loose", products |-> <<"P1">>, lines |-> <<"L1">>,
     max_hours |-> <<20, 20>>,
     rate |-> (<<"P1", "L1">> :> 1),
     tracks |-> [l \in {"L1"} |-> 1],
     items |-> <<>>,
     order |-> [p \in {"P1"} |-> 2],
     setup |-> [l \in {"L1"} |-> 0], cleanup |-> [l \in {"L1"} |-> 0],
     rules |-> <<>>,
     step |-> 10]

Catalogues ==
    {CatSplit, CatWide, CatZero, CatThree, CatScenario, CatIdle, CatGap,
     CatBoth, CatFull, CatSingle, CatLoose}

Products(c) == Range(c.products)
Lines(c) == Range(c.lines)
Slots(c) == 1..Len(c.max_hours)
LastSlot(c) == Len(c.max_hours)

(***************************************************************************)
(* The optimizer's catalogue lookups.                                      *)
(***************************************************************************)
GetMaxWorkingHours(c, t) == c.max_hours[t]

GetCapacityRate(c, p, l) ==
    IF <<p, l>> \in DOMAIN c.rate /\ c.rate[<<p, l>>] > 0
    THEN c.rate[<<p, l>>] ELSE 0

GetPackageCount(c, p) == IF p \in DOMAIN c.items THEN c.items[p] ELSE 0

GetTrackCount(c, l) == IF l \in DOMAIN c.tracks THEN c.tracks[l] ELSE 1

GetChangeoverTime(c, p1, p2, l) ==
    IF <<p1, p2, l>> \in DOMAIN c.rules
    THEN c.rules[<<p1, p2, l>>] ELSE DEFAULT_CHANGEOVER

GetSetupTime(c, l) ==
    IF l \in DOMAIN c.setup THEN c.setup[l] ELSE DEFAULT_SETUP

GetCleanupTime(c, l) ==
    IF l \in DOMAIN c.cleanup THEN c.cleanup[l] ELSE DEFAULT_CLEANUP

(***************************************************************************)
(* VariableFactory: valid combinations, required block length, and the     *)
(* block_start offsets of a combination.                                   *)
(***************************************************************************)
ValidCombinations(c) ==
    LET positive == {v \in Products(c) \X Lines(c) :
                        GetCapacityRate(c, v[1], v[2]) > 0}
    IN  IF positive = {} THEN Products(c) \X Lines(c) ELSE positive

\* production_per_hour is 0: required_hours divides by zero
RequiredSlotsRaises(c, p, l) ==
    \/ GetCapacityRate(c, p, l) * GetTrackCount(c, l) = 0
    \/ GetMaxWorkingHours(c, 1) = 0

\* ceil(required_hours / max_hours of the first slot), at least 1
CalculateRequiredTimeSlots(c, p, l) ==
    LET products_per_box == IF GetPackageCount(c, p) = 0 THEN 1
                            ELSE GetPackageCount(c, p)
        \* required_hours / max_hours, both sides scaled to integers
        required_slots ==
            CeilDiv(Hours(c.order[p] * products_per_box),
                    GetCapacityRate(c, p, l) * GetTrackCount(c, l) * 60
                        * GetMaxWorkingHours(c, 1))
    IN  IF 1 > required_slots THEN 1 ELSE required_slots

\* range(len(timeslots) - required_slots + 1): empty when the block is
\* longer than the week
BlockStartOffsets(c, p, l) ==
    0..(LastSlot(c) - CalculateRequiredTimeSlots(c, p, l))

(***************************************************************************)
(* Keys of the variable families of a built model m.                       *)
(***************************************************************************)
Cells(c, m) == {<<v[1], v[2], t>> : v \in m.valid, t \in Slots(c)}
LineSlots(c) == Lines(c) \X Slots(c)
ProductsOn(m, l) == {p \in {v[1] : v \in m.valid} : <<p, l>> \in m.valid}
PairsOn(m, l) ==
    {pr \in ProductsOn(m, l) \X ProductsOn(m, l) : pr[1] # pr[2]}
\* changeover[p1, p2, l, t]: p1 # p2, both valid on l
ChangeoverKeys(c, m) ==
    UNION {{<<pr[1], pr[2], l, t>> : pr \in PairsOn(m, l), t \in Slots(c)} :
              l \in Lines(c)}

(***************************************************************************)
(* ConstraintManager: each family as the condition it puts on the solved   *)
(* values.  production, production_time: Cells -> value; sequence: Cells   *)
(* -> the positions whose sequence variable is 1; changeover:              *)
(* ChangeoverKeys -> 0..1; changeover_time, cleaning_time,                 *)
(* changeover_count: LineSlots -> value; block_start: valid combination -> *)
(* the offsets whose block_start variable is 1.                            *)
(***************************************************************************)
Bit(b) == IF b THEN 1 ELSE 0
SequenceVar(sequence, p, l, t, pos) == Bit(pos \in sequence[<<p, l, t>>])

\* the scaled units made of product p: sum of production_time * rate *
\* tracks * 60 over its valid lines and all slots
ProducedUnits(c, m, production_time, p) ==
    LET cells == {k \in Cells(c, m) : k[1] = p}
        units == [k \in cells |->
                     production_time[k] * GetCapacityRate(c, p, k[2])
                         * GetTrackCount(c, k[2]) * 60]
    IN  SumOver(cells, units)

\* a faulty variant: the upper bound lets one box too many through
AddProductionConstraintsOneOver(c, m, production_time) ==
    \A p \in Products(c) :
        (\E l \in Lines(c) : <<p, l>> \in m.valid) =>
            IF GetPackageCount(c, p) > 0
            THEN /\ ProducedUnits(c, m, production_time, p)
                        >= Hours(c.order[p] * GetPackageCount(c, p))
                 /\ ProducedUnits(c, m, production_time, p)
                        <= Hours((c.order[p] + 1) * GetPackageCount(c, p))
            ELSE 0 >= c.order[p] /\ 0 <= c.order[p]

\* total boxes >= target and total boxes <= target, boxes being units /
\* items per box (0 boxes when the items per box are not positive)
AddProductionConstraints(c, m, production_time) ==
    \A p \in Products(c) :
        (\E l \in Lines(c) : <<p, l>> \in m.valid) =>
            IF GetPackageCount(c, p) > 0
            THEN /\ ProducedUnits(c, m, production_time, p)
                        >= Hours(c.order[p] * GetPackageCount(c, p))
                 /\ ProducedUnits(c, m, production_time, p)
                        <= Hours(c.order[p] * GetPackageCount(c, p))
            ELSE 0 >= c.order[p] /\ 0 <= c.order[p]

ChangeoverSum(c, m, changeover, l, t) ==
    LET keys == {<<pr[1], pr[2], l, t>> : pr \in PairsOn(m, l)}
    IN  SumOver(keys, changeover)

\* a faulty variant: the count is only bounded from below
AddChangeoverCountConstraintsMinOnly(c, m, changeover, changeover_count) ==
    \A lt \in LineSlots(c) :
        changeover_count[lt] >= ChangeoverSum(c, m, changeover, lt[1], lt[2])

AddChangeoverCountConstraints(c, m, changeover, changeover_count) ==
    \A lt \in LineSlots(c) :
        /\ changeover_count[lt] >= ChangeoverSum(c, m, changeover, lt[1], lt[2])
        /\ changeover_count[lt] <= ChangeoverSum(c, m, changeover, lt[1], lt[2])

AddTotalChangeoverLimit(c, changeover_count) ==
    SumOver(LineSlots(c), changeover_count) <= MAX_CHANGEOVERS

\* the pins on cleaning_time[l, t] = v
SetupAndCleaningAt(c, l, t, v) ==
    /\ t = 1 => v = GetSetupTime(c, l)
    /\ t = LastSlot(c) => v = GetCleanupTime(c, l)
    /\ (t > 1 /\ t < LastSlot(c)) => v = 0

AddSetupAndCleaningConstraints(c, cleaning_time) ==
    \A lt \in LineSlots(c) :
        SetupAndCleaningAt(c, lt[1], lt[2], cleaning_time[lt])

\* z = changeover[p1, p2, l, t] against positions pos, pos + 1 of slot t
IntraSlotChangeover(sequence, p1, p2, l, t, z) ==
    \A pos \in 1..(MAX_POSITIONS - 1) :
        /\ z <= SequenceVar(sequence, p1, l, t, pos)
        /\ z <= SequenceVar(sequence, p2, l, t, pos + 1)
        /\ z >= SequenceVar(sequence, p1, l, t, pos)
                  + SequenceVar(sequence, p2, l, t, pos + 1) - 1

\* z against the last position of the previous slot and the first of t
InterSlotChangeover(sequence, p1, p2, l, t, z) ==
    t > 1 =>
        /\ z <= SequenceVar(sequence, p1, l, t - 1, MAX_POSITIONS)
        /\ z <= SequenceVar(sequence, p2, l, t, 1)
        /\ z >= SequenceVar(sequence, p1, l, t - 1, MAX_POSITIONS)
                  + SequenceVar(sequence, p2, l, t, 1) - 1

ChangeoverDetectionAt(sequence, k, z) ==
    /\ IntraSlotChangeover(sequence, k[1], k[2], k[3], k[4], z)
    /\ InterSlotChangeover(sequence, k[1], k[2], k[3], k[4], z)

\* sequence[p, l, t, pos] <= production[p, l, t], positions being S
SequenceToProductionAt(x, S) ==
    \A pos \in 1..MAX_POSITIONS : Bit(pos \in S) <= x

\* a faulty variant: the rule time is left out of the sum
ChangeoverTimeCalculationAtCount(c, m, changeover, l, t, v) ==
    IF PairsOn(m, l) # {}
    THEN v = ChangeoverSum(c, m, changeover, l, t)
    ELSE v = 0

\* changeover_time[l, t] = v is the sum of indicator * rule time, or 0
\* when the line has no pair of products
ChangeoverTimeCalculationAt(c, m, changeover, l, t, v) ==
    LET keys == {<<pr[1], pr[2], l, t>> : pr \in PairsOn(m, l)}
        terms == [k \in keys |->
                     changeover[k] * GetChangeoverTime(c, k[1], k[2], l)]
    IN  IF keys # {} THEN v = SumOver(keys, terms) ELSE v = 0

AddImprovedConstraints(c, m, production, sequence, changeover,
                       changeover_time) ==
    /\ \A k \in ChangeoverKeys(c, m) :
           ChangeoverDetectionAt(sequence, k, changeover[k])
    /\ \A k \in Cells(c, m) :
           SequenceToProductionAt(production[k], sequence[k])
    /\ \A lt \in LineSlots(c) :
           ChangeoverTimeCalculationAt(c, m, changeover, lt[1], lt[2],
                                       changeover_time[lt])

\* a faulty variant: any number of blocks may start
BlockContinuityAtNoUnique(c, production, p, l, B) ==
    LET required_slots == CalculateRequiredTimeSlots(c, p, l)
    IN  \A start \in 0..(LastSlot(c) - required_slots) :
            \A k \in start..(start + required_slots - 1) :
                k < LastSlot(c) =>
                    production[<<p, l, k + 1>>] >= Bit(start \in B)

\* a faulty variant: the last slot of the block is left free
BlockContinuityAtShort(c, production, p, l, B) ==
    LET required_slots == CalculateRequiredTimeSlots(c, p, l)
        starts == 0..(LastSlot(c) - required_slots)
    IN  /\ \A start \in starts :
               \A k \in start..(start + required_slots - 2) :
                   production[<<p, l, k + 1>>] >= Bit(start \in B)
        /\ starts # {} => Cardinality(B \cap starts) = 1

\* the block constraints of the combination (p, l), B being the offsets
\* whose block_start is 1: production >= block_start over the block, and
\* the block_start variables sum to 1 when there are any
BlockContinuityAt(c, production, p, l, B) ==
    LET required_slots == CalculateRequiredTimeSlots(c, p, l)
        starts == 0..(LastSlot(c) - required_slots)
    IN  required_slots > 0 =>
            /\ \A start \in starts :
                   \A k \in start..(start + required_slots - 1) :
                       k < LastSlot(c) =>
                           production[<<p, l, k + 1>>] >= Bit(start \in B)
            /\ starts # {} => Cardinality(B \cap starts) = 1

AddBlockContinuity(c, m, production, block_start) ==
    \A v \in m.valid :
        BlockContinuityAt(c, production, v[1], v[2], block_start[v])

\* the products of line l whose whole target fits in slot t
SmallProductionProducts(c, m, l, t) ==
    {p \in ProductsOn(m, l) :
        /\ c.order[p] > 0
        /\ GetCapacityRate(c, p, l) > 0
        /\ GetPackageCount(c, p) > 0
        /\ Hours(c.order[p] * GetPackageCount(c, p))
               < GetCapacityRate(c, p, l) * GetTrackCount(c, l) * 60
                     * GetMaxWorkingHours(c, t)}

AddMultiProductInSlot(c, m, production) ==
    \A lt \in LineSlots(c) :
        LET small == SmallProductionProducts(c, m, lt[1], lt[2])
            cells == {<<p, lt[1], lt[2]>> : p \in small}
        IN  small # {} => SumOver(cells, production) <= MAX_PRODUCTS_IN_SLOT

ProductionTimeSum(c, m, production_time, l, t) ==
    LET cells == {<<p, l, t>> : p \in ProductsOn(m, l)}
    IN  SumOver(cells, production_time)

\* soft: some slack >= 0 fills production time up to max_hours - fixed time
SoftUtilizationConstraint(c, m, a, l, t) ==
    \E slack \in 0..GetMaxWorkingHours(c, t) :
        ProductionTimeSum(c, m, a.production_time, l, t) + slack
            >= GetMaxWorkingHours(c, t)
                   - (a.changeover_time[<<l, t>>] + a.cleaning_time[<<l, t>>])

\* soft: when max_hours exceeds the estimated fixed time, some slack >= 0
\* fills the total time up to max_hours * target rate
DynamicUtilizationConstraint(c, m, a, l, t) ==
    GetMaxWorkingHours(c, t) - ESTIMATED_FIXED_TIME > 0 =>
        \E slack \in 0..GetMaxWorkingHours(c, t) :
            100 * (ProductionTimeSum(c, m, a.production_time, l, t)
                       + a.changeover_time[<<l, t>>]
                       + a.cleaning_time[<<l, t>>] + slack)
                >= GetMaxWorkingHours(c, t) * m.target_rate

AddTimeConstraints(c, m, a) ==
    \A lt \in LineSlots(c) :
        /\ SoftUtilizationConstraint(c, m, a, lt[1], lt[2])
        /\ DynamicUtilizationConstraint(c, m, a, lt[1], lt[2])

\* min_time: production_time >= MIN_PRODUCTION_TIME * production
MinTime(c, t, x, v) == v >= Hours(MIN_PRODUCTION_TIME) * x

\* soft max_utilization: some slack >= 0 lifts the time to max_hours
MaxUtilization(c, t, x, v) ==
    \E slack \in 0..GetMaxWorkingHours(c, t) :
        v + slack >= GetMaxWorkingHours(c, t) * x

\* a faulty variant: the slot limit counts production time only
TotalTimeSlotLimitProductionOnly(c, m, production_time, changeover_time, cleaning_time) ==
    \A lt \in LineSlots(c) :
        ProductionTimeSum(c, m, production_time, lt[1], lt[2])
            <= GetMaxWorkingHours(c, lt[2])

\* a faulty variant: the slot limit is left out when the changeover_time
\* weight is 0
TotalTimeSlotLimitWhenWeighted(c, m, production_time, changeover_time, cleaning_time) ==
    \/ m.error = "none" /\ m.objective.changeover_time = 0
    \/ \A lt \in LineSlots(c) :
           ProductionTimeSum(c, m, production_time, lt[1], lt[2])
               + changeover_time[lt]
               + (IF lt[2] = 1 THEN cleaning_time[lt] ELSE 0)
               + (IF lt[2] = LastSlot(c) THEN cleaning_time[lt] ELSE 0)
               <= GetMaxWorkingHours(c, lt[2])

\* a faulty variant: the slot limit leaves setup and cleanup out
TotalTimeSlotLimitNoCleaning(c, m, production_time, changeover_time, cleaning_time) ==
    \A lt \in LineSlots(c) :
        ProductionTimeSum(c, m, production_time, lt[1], lt[2])
            + changeover_time[lt]
            <= GetMaxWorkingHours(c, lt[2])

\* production + changeover + setup (first slot) + cleanup (last slot)
\* is at most max_hours
TotalTimeSlotLimit(c, m, production_time, changeover_time, cleaning_time) ==
    \A lt \in LineSlots(c) :
        ProductionTimeSum(c, m, production_time, lt[1], lt[2])
            + changeover_time[lt]
            + (IF lt[2] = 1 THEN cleaning_time[lt] ELSE 0)
            + (IF lt[2] = LastSlot(c) THEN cleaning_time[lt] ELSE 0)
            <= GetMaxWorkingHours(c, lt[2])

AddTimeUnitNormalizationConstraints(c, m, a) ==
    /\ \A k \in Cells(c, m) :
           /\ MinTime(c, k[3], a.production[k], a.production_time[k])
           /\ MaxUtilization(c, k[3], a.production[k], a.production_time[k])
    /\ TotalTimeSlotLimit(c, m, a.production_time, a.changeover_time,
                          a.cleaning_time)

\* each emitted line constraint pins one sequence variable to 1
AddLineSpecificConstraints(m, sequence) ==
    \A r \in m.line_cons : r.pos \in sequence[<<r.product, r.line, r.slot>>]

\* the inequalities the block sequences left in the problem
AddBlockSequenceConstraints(m, production, block_start) ==
    \A r \in m.block_cons :
        CASE r.var = "production" ->
                 production[<<r.product, r.line, r.slot>>] = 1
          [] r.var = "block_start" ->
                 (r.start_idx \in block_start[<<r.product, r.line>>])
                     <=> r.value = 1
          [] r.var = "order" ->
                 production[<<r.product, r.line, r.slot>>]
                     >= production[<<r.next_product, r.line, r.next_slot>>]

\* add_all_constraints: the values a satisfy every constraint of the model
Feasible(c, m, a) ==
    /\ AddProductionConstraints(c, m, a.production_time)
    /\ AddChangeoverCountConstraints(c, m, a.changeover, a.changeover_count)
    /\ AddSetupAndCleaningConstraints(c, a.cleaning_time)
    /\ AddImprovedConstraints(c, m, a.production, a.sequence, a.changeover,
                              a.changeover_time)
    /\ AddTimeConstraints(c, m, a)
    /\ AddBlockContinuity(c, m, a.production, a.block_start)
    /\ AddMultiProductInSlot(c, m, a.production)
    /\ AddTotalChangeoverLimit(c, a.changeover_count)
    /\ AddLineSpecificConstraints(m, a.sequence)
    /\ AddBlockSequenceConstraints(m, a.production, a.block_start)
    /\ AddTimeUnitNormalizationConstraints(c, m, a)

(***************************************************************************)
(* The solver: the values it may return are the assignments of the         *)
(* variables created by _create_variables that satisfy every constraint.   *)
(* The objective only selects among them, so a claim about every feasible  *)
(* solution covers whatever the weights make optimal.  The assignments are *)
(* enumerated family by family, each family cut down by the constraints    *)
(* that mention it alone, and Feasible decides membership.                 *)
(***************************************************************************)
Positions == 1..MAX_POSITIONS
TimeGrid(c) == {k * c.step : k \in 0..MaxSteps}

ProductionChoices(c, m) ==
    {x \in [Cells(c, m) -> 0..1] : AddMultiProductInSlot(c, m, x)}

BlockStartChoices(c, m, x) ==
    DepFun(m.valid,
           [v \in m.valid |->
               {B \in SUBSET m.offsets[v] :
                   BlockContinuityAt(c, x, v[1], v[2], B)}])

ProductionTimeChoices(c, m, x) ==
    {pt \in DepFun(Cells(c, m),
                   [k \in Cells(c, m) |->
                       {v \in TimeGrid(c) : MinTime(c, k[3], x[k], v)}]) :
        AddProductionConstraints(c, m, pt)}

SequenceChoices(c, m, x) ==
    {s \in DepFun(Cells(c, m),
                  [k \in Cells(c, m) |->
                      {S \in SUBSET Positions :
                          SequenceToProductionAt(x[k], S)}]) :
        AddLineSpecificConstraints(m, s)}

ChangeoverChoices(c, m, s) ==
    DepFun(ChangeoverKeys(c, m),
           [k \in ChangeoverKeys(c, m) |->
               {z \in 0..1 : ChangeoverDetectionAt(s, k, z)}])

ChangeoverCountChoices(c, m, z) ==
    {cc \in [LineSlots(c) -> 0..1] :
        AddChangeoverCountConstraints(c, m, z, cc)}

ChangeoverTimeChoices(c, m, z) ==
    DepFun(LineSlots(c),
           [lt \in LineSlots(c) |->
               {v \in 0..GetMaxWorkingHours(c, lt[2]) :
                   ChangeoverTimeCalculationAt(c, m, z, lt[1], lt[2], v)}])

CleaningTimeChoices(c) ==
    DepFun(LineSlots(c),
           [lt \in LineSlots(c) |->
               {v \in 0..GetMaxWorkingHours(c, lt[2]) :
                   SetupAndCleaningAt(c, lt[1], lt[2], v)}])

\* sequence, changeover, changeover_count and changeover_time together
OrderChoices(c, m, x) ==
    UNION {UNION {{[sequence |-> s, changeover |-> z,
                    changeover_count |-> cc, changeover_time |-> ct] :
                       cc \in ChangeoverCountChoices(c, m, z),
                       ct \in ChangeoverTimeChoices(c, m, z)} :
                  z \in ChangeoverChoices(c, m, s)} :
              s \in SequenceChoices(c, m, x)}

Assignments(c, m, x) ==
    LET starts == BlockStartChoices(c, m, x)
        times == ProductionTimeChoices(c, m, x)
    IN  IF starts = {} \/ times = {} THEN {}
        ELSE {[block_start |-> bs, production |-> x, production_time |-> pt,
               sequence |-> o.sequence, changeover |-> o.changeover,
               changeover_count |-> o.changeover_count,
               changeover_time |-> o.changeover_time, cleaning_time |-> cl,
               residue |-> {}] :
                  bs \in starts, pt \in times, o \in OrderChoices(c, m, x),
                  cl \in CleaningTimeChoices(c)}

FeasibleSolutions(c, m) ==
    {a \in UNION {Assignments(c, m, x) : x \in ProductionChoices(c, m)} :
        Feasible(c, m, a)}

NoSolution ==
    [block_start |-> <<>>, production |-> <<>>, production_time |-> <<>>,
     sequence |-> <<>>, changeover |-> <<>>, changeover_count |-> <<>>,
     changeover_time |-> <<>>, cleaning_time |-> <<>>, residue |-> {}]

\* The solver meets an equality only within its tolerance: a changeover_time
\* whose exact value is 0 may come back as a tiny positive number.  residue
\* is the set of the (line, slot) where it did; the indicators are rounded
\* by their own tests and carry none
ResidueChoices(c, a, tolerance) ==
    IF tolerance
    THEN SUBSET {lt \in LineSlots(c) : a.changeover_time[lt] = 0}
    ELSE {{}}

(***************************************************************************)
(* LineConstraintConfig.  constraints maps a line id to the list of the    *)
(* constraints added for it; a constraint is its type and its parameters,  *)
(* the product of a one-product type or the blocks of a block sequence.    *)
(***************************************************************************)
NewLineConstraintConfig ==
    [constraints |-> <<>>, available_products |-> <<>>,
     available_lines |-> <<>>]

LineConstraintTypes == {"start_product", "last_product"}

\* an empty list of known codes validates everything
ValidateProductCode(cfg, product_code) ==
    IF cfg.available_products = <<>> THEN TRUE
    ELSE product_code \in Range(cfg.available_products)

ValidateLineId(cfg, line_id) ==
    IF cfg.available_lines = <<>> THEN TRUE
    ELSE line_id \in Range(cfg.available_lines)

\* add_line_constraint raises ValueError
AddLineConstraintRaises(cfg, line_id, constraint_type, params) ==
    \/ ~ValidateLineId(cfg, line_id)
    \/ /\ constraint_type \in {"start_product", "start_end_product",
                               "last_product"}
       /\ ~ValidateProductCode(cfg, params.product)
    \/ /\ constraint_type = "block_sequence"
       /\ \E i \in DOMAIN params.block_sequence :
              \/ ~ValidateProductCode(cfg, params.block_sequence[i].product)
              \/ params.block_sequence[i].blocks <= 0

\* the configuration after an accepted add_line_constraint
AddLineConstraintStored(cfg, line_id, constraint_type, params) ==
    LET entry == [type |-> constraint_type, params |-> params]
    IN  [cfg EXCEPT !.constraints =
            IF line_id \in DOMAIN @
            THEN [@ EXCEPT ![line_id] = Append(@, entry)]
            ELSE @ @@ (line_id :> <<entry>>)]

SetAvailable(cfg, c) ==
    [cfg EXCEPT !.available_products = c.products,
                !.available_lines = c.lines]

GetAllConstrainedLines(cfg) == DOMAIN cfg.constraints

\* the (line, product) pairs a configuration holds constraints for
ConstrainedPairs(cfg) ==
    UNION {UNION {LET k == cfg.constraints[l][i]
                  IN  IF k.type = "block_sequence"
                      THEN {<<l, k.params.block_sequence[j].product>> :
                               j \in DOMAIN k.params.block_sequence}
                      ELSE {<<l, k.params.product>>} :
                     i \in DOMAIN cfg.constraints[l]} :
              l \in GetAllConstrainedLines(cfg)}

(***************************************************************************)
(* _add_line_specific_constraints: the sequence variables pinned to 1.  A  *)
(* constraint on a line that is not active is skipped; one naming a        *)
(* sequence variable that was never created raises KeyError, which is      *)
(* caught and logged, and adds nothing.                                    *)
(***************************************************************************)
Pin(c, valid, l, p, t, pos) ==
    IF <<p, l>> \in valid
    THEN {[line |-> l, product |-> p, slot |-> t, pos |-> pos]}
    ELSE {}

\* a faulty variant: the last product is pinned in the first slot
LastProductConstraintFirstSlot(c, valid, l, p) ==
    Pin(c, valid, l, p, 1, MAX_POSITIONS)

AddStartProductConstraint(c, valid, l, p) == Pin(c, valid, l, p, 1, 1)

AddLastProductConstraint(c, valid, l, p) ==
    Pin(c, valid, l, p, LastSlot(c), MAX_POSITIONS)

AddStartEndProductConstraint(c, valid, l, p) ==
    Pin(c, valid, l, p, 1, 1) \cup Pin(c, valid, l, p, LastSlot(c), MAX_POSITIONS)

LineSpecificConstraints(c, cfg, valid) ==
    UNION {UNION {LET k == cfg.constraints[l][i]
                  IN  IF k.type = "start_product"
                      THEN AddStartProductConstraint(c, valid, l, k.params.product)
                      ELSE IF k.type = "start_end_product"
                      THEN AddStartEndProductConstraint(c, valid, l,
                                                        k.params.product)
                      ELSE IF k.type = "last_product"
                      THEN AddLastProductConstraint(c, valid, l, k.params.product)
                      ELSE {} :
                     i \in DOMAIN cfg.constraints[l]} :
              l \in GetAllConstrainedLines(cfg) \cap Lines(c)}

(***************************************************************************)
(* _add_block_sequence_constraint.  Its inequalities go into the problem   *)
(* one by one, each a record here: production[p, l, slot] == 1, a          *)
(* block_start[p, l][start_idx] == value, or production of one product in  *)
(* a slot >= production of the next in another.  A KeyError on a variable  *)
(* that was never created ends the function; the caller catches and logs   *)
(* it, and the inequalities added before it stay in the problem.  m holds  *)
(* the valid combinations and the block_start indices of the build.        *)
(***************************************************************************)
\* the block sequences callers pass: one or two entries of one block each
BlockSequences(c) ==
    LET infos == {[product |-> p, blocks |-> b] :
                     p \in Products(c) \cup {"PX"}, b \in {1}}
    IN  {<<x>> : x \in infos} \cup {<<x, y>> : x, y \in infos}

\* current_block_position when entry i is reached: the blocks of the
\* entries before it that are valid combinations on the line
BlockPosition(valid, l, block_sequence, i) ==
    LET before == {j \in 1..(i - 1) : <<block_sequence[j].product, l>> \in valid}
    IN  SumOver(before, [j \in before |-> block_sequence[j].blocks])

\* the placement loop at entry i: what it adds, and whether it raises there
BlockPlacement(c, m, l, block_sequence, i) ==
    LET product == block_sequence[i].product
        required_blocks == block_sequence[i].blocks
        position == BlockPosition(m.valid, l, block_sequence, i)
        indices == 0..(LastSlot(c) - required_blocks)
        missing == {s \in indices : s \notin m.offsets[<<product, l>>]}
        reached == {s \in indices : \A x \in missing : s < x}
        blocks == {b \in 0..(required_blocks - 1) :
                      /\ position + b < LastSlot(c)
                      /\ missing # {} => b = 0}
    IN  IF <<product, l>> \notin m.valid
        THEN [emitted |-> {}, raised |-> FALSE]
        ELSE [emitted |->
                  {[var |-> "production", line |-> l, product |-> product,
                    slot |-> position + b + 1] : b \in blocks}
                      \cup {[var |-> "block_start", line |-> l,
                             product |-> product, start_idx |-> s,
                             value |-> Bit(s = position)] : s \in reached},
              raised |-> missing # {}]

\* the order loop at the pair (i, i + 1); time_slots[k] with k < 0 counts
\* from the end of the list
BlockOrder(c, m, l, block_sequence, i) ==
    LET time_slot(k) == IF k < 0 THEN LastSlot(c) + k + 1 ELSE k + 1
        current_product == block_sequence[i].product
        next_product == block_sequence[i + 1].product
        later == (i + 1)..Len(block_sequence)
        current_last_block ==
            BlockPosition(m.valid, l, block_sequence, Len(block_sequence) + 1)
                - SumOver(later, [j \in later |-> block_sequence[j].blocks])
    IN  IF ~(current_last_block < LastSlot(c))
        THEN [emitted |-> {}, raised |-> FALSE]
        ELSE IF \/ <<current_product, l>> \notin m.valid
                \/ <<next_product, l>> \notin m.valid
        THEN [emitted |-> {}, raised |-> TRUE]
        ELSE [emitted |->
                  {[var |-> "order", line |-> l, product |-> current_product,
                    slot |-> time_slot(current_last_block - 1),
                    next_product |-> next_product,
                    next_slot |-> time_slot(current_last_block)]},
              raised |-> FALSE]

\* the whole function: the inequalities it leaves in the problem, and
\* whether it ended in an exception
AddBlockSequenceConstraint(c, m, l, block_sequence) ==
    LET entries == DOMAIN block_sequence
        pairs == 1..(Len(block_sequence) - 1)
        total_blocks_needed ==
            SumOver(entries, [i \in entries |-> block_sequence[i].blocks])
        place(i) == BlockPlacement(c, m, l, block_sequence, i)
        order(i) == BlockOrder(c, m, l, block_sequence, i)
        placed == {i \in entries : \A j \in 1..(i - 1) : ~place(j).raised}
        stopped == \E i \in entries : place(i).raised
        ordered == {i \in pairs : \A j \in 1..(i - 1) : ~order(j).raised}
    IN  IF block_sequence = <<>> \/ total_blocks_needed > LastSlot(c)
        THEN [emitted |-> {}, raised |-> FALSE]
        ELSE [emitted |->
                  UNION {place(i).emitted : i \in placed}
                      \cup (IF stopped THEN {}
                            ELSE UNION {order(i).emitted : i \in ordered}),
              raised |-> stopped \/ \E i \in pairs : order(i).raised]

\* what the block sequences of the configuration leave in the problem
BlockSequenceConstraints(c, cfg, m) ==
    UNION {UNION {LET k == cfg.constraints[l][i]
                  IN  IF k.type = "block_sequence"
                      THEN AddBlockSequenceConstraint(
                               c, m, l, k.params.block_sequence).emitted
                      ELSE {} :
                     i \in DOMAIN cfg.constraints[l]} :
              l \in GetAllConstrainedLines(cfg) \cap Lines(c)}

(***************************************************************************)
(* The weights and the utilization target.  Weights are kept in tenths     *)
(* (0.6 = 6), the target rate in per cent.                                 *)
(***************************************************************************)
\* optimizer.weights of a new optimizer
DefaultWeights ==
    [production_time |-> 10, changeover_time |-> 50, changeover_count |-> 50,
     cleaning_time |-> 6, discontinuity |-> 30, capacity_violation |-> 10,
     priority_violation |-> 150]

\* the six-entry weight vectors callers pass: the one of the main run and
\* the one of the diagnostic's first step (all but production_time at 0)
MainWeights ==
    [production_time |-> 10, changeover_time |-> 50, changeover_count |-> 200,
     discontinuity |-> 2000, capacity_violation |-> 10,
     priority_violation |-> 150]

ProductionOnlyWeights ==
    [production_time |-> 10, changeover_time |-> 0, changeover_count |-> 0,
     discontinuity |-> 0, capacity_violation |-> 0, priority_violation |-> 0]

SixEntryWeights == {MainWeights, ProductionOnlyWeights}

\* dict.update: the entries of w replace those of old, the others stay
UpdatedWeights(old, w) == w @@ old

\* the arguments set_utilization_target is called with, in per cent
TargetArguments == {-10, 50, 90, 95, 100, 150}

\* a faulty variant: no lower end
ClampedTargetUpperOnly(target_rate) ==
    IF 100 <= target_rate THEN 100 ELSE target_rate

\* max(0.90, min(1.0, target_rate))
ClampedTarget(target_rate) ==
    LET upper == IF 100 <= target_rate THEN 100 ELSE target_rate
    IN  IF 90 >= upper THEN 90 ELSE upper

(***************************************************************************)
(* build_model                                                             *)
(***************************************************************************)
\* the slack variables a ConstraintManager holds in its penalty pools
NoPools ==
    [production_underutilization_penalties |-> 0,
     dynamic_utilization_penalties |-> 0,
     time_normalization_penalties |-> 0]

NoModel ==
    [built |-> "none", error |-> "none", valid |-> {}, offsets |-> <<>>,
     line_cons |-> {}, block_cons |-> {}, target_rate |-> 0,
     objective |-> <<>>,
     variables |-> 0, constraints |-> 0, pools |-> NoPools]

\* a faulty variant: build_model goes on with the manager of the last build
ConstraintManagerKept == model.pools

\* ConstraintManager(optimizer): a new object, without any pool
ConstraintManager == NoPools

\* the (line, slot) pairs that get a dynamic utilization constraint
DynamicUtilizationSlots(c) ==
    {lt \in LineSlots(c) :
        GetMaxWorkingHours(c, lt[2]) - ESTIMATED_FIXED_TIME > 0}

\* the pools once add_all_constraints has run on the manager: one slack per
\* soft utilization constraint, per dynamic utilization constraint and per
\* max_utilization constraint
PenaltyPools(manager, c, m) ==
    [production_underutilization_penalties |->
         manager.production_underutilization_penalties
             + Cardinality(LineSlots(c)),
     dynamic_utilization_penalties |->
         manager.dynamic_utilization_penalties
             + Cardinality(DynamicUtilizationSlots(c)),
     time_normalization_penalties |->
         manager.time_normalization_penalties + Cardinality(Cells(c, m))]

\* the variables _create_variables makes: production, production_time,
\* changeover, changeover_time, cleaning_time, continuity,
\* changeover_count, sequence, sequence_changeover and block_start
CreatedVariables(c, m) ==
    LET block_starts == [v \in m.valid |-> Cardinality(m.offsets[v])]
    IN  2 * Cardinality(Cells(c, m))
            + Cardinality(ChangeoverKeys(c, m))
            + 3 * Cardinality(LineSlots(c))
            + Cardinality(m.valid) * (LastSlot(c) - 1)
            + MAX_POSITIONS * Cardinality(Cells(c, m))
            + (MAX_POSITIONS - 1) * Cardinality(ChangeoverKeys(c, m))
            + SumOver(m.valid, block_starts)

\* the constraints add_all_constraints adds, function by function
AddedConstraints(c, m) ==
    LET ordered == {p \in Products(c) : \E l \in Lines(c) : <<p, l>> \in m.valid}
        middle == IF LastSlot(c) > 2 THEN LastSlot(c) - 2 ELSE 0
        later == {k \in ChangeoverKeys(c, m) : k[4] > 1}
        blocks == [v \in m.valid |->
                      Cardinality(m.offsets[v])
                              * CalculateRequiredTimeSlots(c, v[1], v[2])
                          + (IF m.offsets[v] # {} THEN 1 ELSE 0)]
        shared == {lt \in LineSlots(c) :
                      SmallProductionProducts(c, m, lt[1], lt[2]) # {}}
    IN  2 * Cardinality(ordered)
            + 2 * Cardinality(LineSlots(c))
            + (2 + middle) * Cardinality(Lines(c))
            + 3 * (MAX_POSITIONS - 1) * Cardinality(ChangeoverKeys(c, m))
            + 3 * Cardinality(later)
            + MAX_POSITIONS * Cardinality(Cells(c, m))
            + Cardinality(LineSlots(c))
            + Cardinality(LineSlots(c))
            + Cardinality(DynamicUtilizationSlots(c))
            + SumOver(m.valid, blocks)
            + Cardinality(shared)
            + 1
            + Cardinality(m.line_cons)
            + Cardinality(m.block_cons)
            + 2 * Cardinality(Cells(c, m))
            + Cardinality(LineSlots(c))

\* _create_variables raises (division by zero in the block length)
CreateVariablesRaises(c) ==
    \E v \in ValidCombinations(c) : RequiredSlotsRaises(c, v[1], v[2])

\* _add_production_constraints raises: without items per box the boxes of
\* a product are the number 0, the lower bound on them is the boolean
\* 0 >= target_boxes, and the problem refuses a False constraint
AddProductionConstraintsRaises(c) ==
    \E p \in Products(c) :
        /\ \E l \in Lines(c) : <<p, l>> \in ValidCombinations(c)
        /\ ~(GetPackageCount(c, p) > 0)
        /\ ~(0 >= c.order[p])

\* the weight entries _set_objective_function reads
ObjectiveEntries ==
    {"production_time", "changeover_time", "changeover_count", "cleaning_time"}

\* a missing entry is a KeyError
SetObjectiveFunctionRaises(w) == ~(ObjectiveEntries \subseteq DOMAIN w)

\* the coefficients of the objective: the weighted totals and the fixed
\* penalties (100, 75 and 80) of the three slack pools, in tenths
ObjectiveFunction(w) ==
    [production_time |-> 0 - w["production_time"],
     changeover_time |-> w["changeover_time"],
     changeover_count |-> w["changeover_count"],
     cleaning_time |-> w["cleaning_time"],
     production_underutilization_penalties |-> 1000,
     dynamic_utilization_penalties |-> 750,
     time_normalization_penalties |-> 800]

\* a new problem, its variables, its constraints, then its objective; an
\* exception leaves the problem as far as it was built
BuiltModel(c, cfg, w, rate) ==
    IF CreateVariablesRaises(c)
    THEN [NoModel EXCEPT !.built = "raised", !.error = "ZeroDivisionError"]
    ELSE LET created ==
                 [valid |-> ValidCombinations(c),
                  offsets |-> [v \in ValidCombinations(c) |->
                                  BlockStartOffsets(c, v[1], v[2])]]
             constrained ==
                 [built |-> "ok", error |-> "none",
                  valid |-> created.valid,
                  offsets |-> created.offsets,
                  line_cons |-> LineSpecificConstraints(c, cfg,
                                                        ValidCombinations(c)),
                  block_cons |-> BlockSequenceConstraints(c, cfg, created),
                  target_rate |-> rate,
                  objective |-> <<>>,
                  variables |-> 0, constraints |-> 0, pools |-> NoPools]
             pools == PenaltyPools(ConstraintManager, c, constrained)
             counted ==
                 [constrained EXCEPT
                      !.pools = pools,
                      !.variables =
                          CreatedVariables(c, constrained)
                              + pools.production_underutilization_penalties
                              + pools.dynamic_utilization_penalties
                              + pools.time_normalization_penalties,
                      !.constraints = AddedConstraints(c, constrained)]
         IN  IF AddProductionConstraintsRaises(c)
             THEN [constrained EXCEPT !.built = "raised",
                                      !.error = "TypeError"]
             ELSE IF SetObjectiveFunctionRaises(w)
             THEN [counted EXCEPT !.built = "raised", !.error = "KeyError"]
             ELSE [counted EXCEPT !.objective = ObjectiveFunction(w)]

(***************************************************************************)
(* solve: what the call returns for each verdict of the solver.  "raised"  *)
(* stands for any exception inside the try block (no model, no solver).    *)
(***************************************************************************)
\* a faulty variant: an unbounded problem is reported as a success
SolveReturnUnbounded(verdict) ==
    IF verdict \in {"Optimal", "Unbounded"} THEN "true" ELSE "false"

SolveReturn(verdict) ==
    IF verdict = "raised" THEN "false"
    ELSE IF verdict = "Optimal" THEN "true"
    ELSE IF verdict = "Infeasible" THEN "false"
    ELSE IF verdict = "Unbounded" THEN "false"
    ELSE "false"

(***************************************************************************)
(* verify_time_constraint_violations: the number of (line, slot) whose     *)
(* production, changeover and cleaning time together exceed max_hours.     *)
(***************************************************************************)
VerifyTimeConstraintViolations(c, m, a) ==
    Cardinality({lt \in LineSlots(c) :
        ProductionTimeSum(c, m, a.production_time, lt[1], lt[2])
            + a.changeover_time[lt] + a.cleaning_time[lt]
            > GetMaxWorkingHours(c, lt[2])})

(***************************************************************************)
(* extract_solution                                                        *)
(***************************************************************************)
\* the products with production > 0.5 on line l in slot t, in catalogue order
LineSchedule(c, m, a, l, t) ==
    SelectSeq(c.products,
              LAMBDA p : <<p, l>> \in m.valid /\ a.production[<<p, l, t>>] = 1)

ChangeoverEvent(c, l, t, from, to) ==
    [line |-> l, time_slot |-> t, from_product |-> from, to_product |-> to,
     changeover_time |-> GetChangeoverTime(c, from, to, l)]

\* one event per pair of neighbours in the slot's schedule
IntraSlotEvents(c, m, a, l, t) ==
    LET productions == LineSchedule(c, m, a, l, t)
    IN  [i \in 1..(Len(productions) - 1) |->
            ChangeoverEvent(c, l, t, productions[i], productions[i + 1])]

\* a faulty variant: a change between slots is not recorded
InterSlotEventsNone(c, m, a, l, t) == <<>>

\* last product of the previous slot against the first of this one
InterSlotEvents(c, m, a, l, t) ==
    IF t = 1 THEN <<>>
    ELSE LET previous_productions == LineSchedule(c, m, a, l, t - 1)
             current_productions == LineSchedule(c, m, a, l, t)
         IN  IF /\ previous_productions # <<>>
                /\ current_productions # <<>>
                /\ previous_productions[Len(previous_productions)]
                       # current_productions[1]
             THEN <<ChangeoverEvent(c, l, t,
                        previous_productions[Len(previous_productions)],
                        current_productions[1])>>
             ELSE <<>>

ActualChangeoverFound(c, m, a, l, t) ==
    \E pr \in PairsOn(m, l) : a.changeover[<<pr[1], pr[2], l, t>>] > 0

\* value(changeover_time[l, t]) > 0
ChangeoverTimePositive(a, l, t) ==
    a.changeover_time[<<l, t>>] > 0 \/ <<l, t>> \in a.residue

\* changeover_time > 0 in a slot without a recorded event
UnexplainedChangeoverTime(c, m, a, l, t) ==
    /\ ChangeoverTimePositive(a, l, t)
    /\ IntraSlotEvents(c, m, a, l, t) \o InterSlotEvents(c, m, a, l, t) = <<>>

DetailEvents(c, m, a, l, t) ==
    IF /\ UnexplainedChangeoverTime(c, m, a, l, t)
       /\ ActualChangeoverFound(c, m, a, l, t)
    THEN <<[line |-> l, time_slot |-> t, from_product |-> "",
            to_product |-> "",
            changeover_time |-> a.changeover_time[<<l, t>>]]>>
    ELSE <<>>

\* the line and the slot ("월요일_야간", the second) of the debug branch
DebugLine == "16"
DebugSlot == 2

\* the debug branch binds last_prev and first_curr: it is entered for its
\* own line and slot, and binds them when the changeover time there is
\* positive and both that slot and the one before it produce something
DebugNamesBound(c, m, a) ==
    /\ <<DebugLine, DebugSlot>> \in LineSlots(c)
    /\ ChangeoverTimePositive(a, DebugLine, DebugSlot)
    /\ LineSchedule(c, m, a, DebugLine, DebugSlot - 1) # <<>>
    /\ LineSchedule(c, m, a, DebugLine, DebugSlot) # <<>>

LineIndex(c, l) == CHOOSE i \in DOMAIN c.lines : c.lines[i] = l

\* (l, t) is visited by the loops no earlier than the debug line and slot
FromDebugSlotOn(c, l, t) ==
    /\ DebugLine \in Lines(c)
    /\ \/ LineIndex(c, l) > LineIndex(c, DebugLine)
       \/ l = DebugLine /\ t >= DebugSlot

\* a positive changeover time without event and without indicator
Inconsistent(c, m, a, l, t) ==
    /\ UnexplainedChangeoverTime(c, m, a, l, t)
    /\ ~ActualChangeoverFound(c, m, a, l, t)

\* the branch that reads last_prev, a name bound only in the debug branch
ExtractRaises(c, m, a) ==
    \E lt \in LineSlots(c) :
        /\ Inconsistent(c, m, a, lt[1], lt[2])
        /\ ~(DebugNamesBound(c, m, a) /\ FromDebugSlotOn(c, lt[1], lt[2]))

RECURSIVE SlotEventsFrom(_, _, _, _, _)
SlotEventsFrom(c, m, a, l, t) ==
    IF t > LastSlot(c) THEN <<>>
    ELSE IntraSlotEvents(c, m, a, l, t) \o InterSlotEvents(c, m, a, l, t)
             \o DetailEvents(c, m, a, l, t)
             \o SlotEventsFrom(c, m, a, l, t + 1)

RECURSIVE ChangeoverEventsFrom(_, _, _, _)
ChangeoverEventsFrom(c, m, a, i) ==
    IF i > Len(c.lines) THEN <<>>
    ELSE SlotEventsFrom(c, m, a, c.lines[i], 1)
             \o ChangeoverEventsFrom(c, m, a, i + 1)

ProductionSchedule(c, m, a) ==
    LET filled == {lt \in LineSlots(c) :
                      LineSchedule(c, m, a, lt[1], lt[2]) # <<>>}
    IN  [lt \in filled |->
            LET productions == LineSchedule(c, m, a, lt[1], lt[2])
            IN  [i \in 1..Len(productions) |->
                    [product |-> productions[i],
                     production_time |->
                         a.production_time[<<productions[i], lt[1], lt[2]>>]]]]

NoExtract ==
    [state |-> "none", production_schedule |-> <<>>, changeover_events |-> <<>>]

\* the value of an objective the problem does not have raises as well
ExtractedSolution(c, m, st, a) ==
    IF m.built = "none" \/ st # "Optimal"
    THEN [NoExtract EXCEPT !.state = "empty"]
    ELSE IF m.objective = <<>> \/ ExtractRaises(c, m, a)
    THEN [NoExtract EXCEPT !.state = "raised"]
    ELSE [state |-> "ok",
          production_schedule |-> ProductionSchedule(c, m, a),
          changeover_events |-> ChangeoverEventsFrom(c, m, a, 1)]

(***************************************************************************)
(* The state machine.  A new optimizer owns an empty LineConstraintConfig  *)
(* ("own"); the caller may fill one of its own ("ext") and attach it.      *)
(***************************************************************************)
InitFor(c) ==
    /\ cat = c
    /\ cfgs = [o \in {"own", "ext"} |-> NewLineConstraintConfig]
    /\ line_constraints = "own"
    /\ last_error = "none"
    /\ calls = 0
    /\ model = NoModel
    /\ status = "none"
    /\ sol = NoSolution
    /\ last_solve = "none"
    /\ extracted = NoExtract
    /\ weights = DefaultWeights
    /\ target_utilization_rate = TARGET_UTILIZATION_RATE
    /\ target_argument = TARGET_UTILIZATION_RATE
    /\ builds = 0

\* the codes a caller may name: those of the catalogue and an unknown one
LineIds(c) == Lines(c) \cup {"LX"}
ProductCodes(c) == Products(c) \cup {"PX"}

\* a faulty variant: the constraint is appended before it is validated
AddLineConstraintOnAppendFirst(o, cfg, line_id, constraint_type, params) ==
    /\ cfgs' = [cfgs EXCEPT ![o] =
                    AddLineConstraintStored(cfg, line_id, constraint_type,
                                            params)]
    /\ last_error' =
           IF AddLineConstraintRaises(cfg, line_id, constraint_type, params)
           THEN "ValueError" ELSE "none"

\* LineConstraintConfig.add_line_constraint on the object o
AddLineConstraintOn(o, cfg, line_id, constraint_type, params) ==
    IF AddLineConstraintRaises(cfg, line_id, constraint_type, params)
    THEN /\ cfgs' = [cfgs EXCEPT ![o] = cfg]
         /\ last_error' = "ValueError"
    ELSE /\ cfgs' = [cfgs EXCEPT ![o] =
                        AddLineConstraintStored(cfg, line_id, constraint_type,
                                                params)]
         /\ last_error' = "none"

\* optimizer.add_line_constraint: sets the known codes, then delegates
OptimizerAddLineConstraint(line_id, constraint_type, params) ==
    /\ model.built = "none" /\ last_solve = "none"
    /\ AddLineConstraintOn(line_constraints,
                           SetAvailable(cfgs[line_constraints], cat),
                           line_id, constraint_type, params)
    /\ calls' = calls + 1
    /\ UNCHANGED <<settings, builds, cat, line_constraints, model, status,
                   sol, last_solve, extracted>>

\* add_line_constraint called on the caller's own LineConstraintConfig
ConfigAddLineConstraint(line_id, constraint_type, params) ==
    /\ model.built = "none" /\ last_solve = "none"
    /\ AddLineConstraintOn("ext", cfgs["ext"], line_id, constraint_type,
                           params)
    /\ calls' = calls + 1
    /\ UNCHANGED <<settings, builds, cat, line_constraints, model, status,
                   sol, last_solve, extracted>>

\* optimizer.set_line_constraints(the caller's configuration)
SetLineConstraints ==
    /\ model.built = "none" /\ last_solve = "none" /\ line_constraints = "own"
    /\ cfgs' = [cfgs EXCEPT !["ext"] = SetAvailable(@, cat)]
    /\ line_constraints' = "ext"
    /\ UNCHANGED <<settings, builds, cat, last_error, calls, model, status,
                   sol, last_solve, extracted>>

\* build_model: a new problem, its variables and constraints; what solve
\* and extract_solution returned for the previous one is forgotten
BuildModel ==
    /\ model' = BuiltModel(cat, cfgs[line_constraints], weights,
                            target_utilization_rate)
    /\ status' = "Not Solved"
    /\ sol' = NoSolution
    /\ last_solve' = "none"
    /\ extracted' = NoExtract
    /\ builds' = IF builds < MaxBuilds THEN builds + 1 ELSE builds
    /\ UNCHANGED <<settings, cat, cfgs, line_constraints, last_error, calls>>

\* solve, once per model: without a model the call fails inside the try
\* block; otherwise the solver gives its verdict, Optimal with one of the
\* feasible assignments, Infeasible only when there is none.  A problem
\* left without objective by a KeyError holds all its constraints and is
\* solved with a constant objective; logging the value of the objective it
\* does not have then raises, and the call returns false
SolveFrom(tolerance) ==
    /\ last_solve = "none"
    /\ \/ /\ model.built = "none"
          /\ last_solve' = SolveReturn("raised")
          /\ UNCHANGED <<status, sol>>
       \/ /\ model.built = "ok" \/ model.error = "KeyError"
          /\ LET feasible == FeasibleSolutions(cat, model)
             IN  IF feasible = {}
                 THEN /\ status' = "Infeasible"
                      /\ last_solve' = SolveReturn("Infeasible")
                      /\ UNCHANGED sol
                 ELSE \E a \in feasible :
                          \E r \in ResidueChoices(cat, a, tolerance) :
                          /\ sol' = [a EXCEPT !.residue = r]
                          /\ status' = "Optimal"
                          /\ last_solve' =
                                 IF model.objective = <<>>
                                 THEN SolveReturn("raised")
                                 ELSE SolveReturn("Optimal")
       \/ /\ model.built # "none"
          /\ \E verdict \in {"Unbounded", "Undefined", "Not Solved"} :
                 /\ status' = verdict
                 /\ last_solve' = SolveReturn(verdict)
          /\ UNCHANGED sol
       \/ /\ model.built # "none"
          /\ last_solve' = SolveReturn("raised")
          /\ UNCHANGED <<status, sol>>
    /\ UNCHANGED <<settings, builds, cat, cfgs, line_constraints, last_error,
                   calls, model, extracted>>

\* the solver's values taken as exact
Solve == SolveFrom(FALSE)

\* the solver's values as they are read back, within its tolerance
SolveWithinTolerance == SolveFrom(TRUE)

\* solve(solver_name) with a name getSolver does not know: the exception
\* is caught before the problem is touched
SolveUnavailable ==
    /\ last_solve' = SolveReturn("raised")
    /\ UNCHANGED <<settings, builds, cat, cfgs, line_constraints, last_error,
                   calls, model, status, sol, extracted>>

\* extract_solution, explored once solve has returned
ExtractSolution ==
    /\ last_solve # "none"
    /\ extracted' = ExtractedSolution(cat, model, status, sol)
    /\ UNCHANGED <<settings, builds, cat, cfgs, line_constraints, last_error,
                   calls, model, status, sol, last_solve>>

\* set_utilization_target(target_rate)
SetUtilizationTarget(target_rate) ==
    /\ target_utilization_rate' = ClampedTarget(target_rate)
    /\ target_argument' = target_rate
    /\ UNCHANGED <<weights, builds, cat, cfgs, line_constraints, last_error,
                   calls, model, status, sol, last_solve, extracted>>

\* optimizer.weights.update(w)
UpdateWeights(w) ==
    /\ weights' = UpdatedWeights(weights, w)
    /\ UNCHANGED <<target_utilization_rate, target_argument, builds, cat,
                   cfgs, line_constraints, last_error, calls, model, status,
                   sol, last_solve, extracted>>

\* optimizer.weights = w
ReplaceWeights(w) ==
    /\ weights' = w
    /\ UNCHANGED <<target_utilization_rate, target_argument, builds, cat,
                   cfgs, line_constraints, last_error, calls, model, status,
                   sol, last_solve, extracted>>

SetWeights == \E w \in SixEntryWeights : UpdateWeights(w) \/ ReplaceWeights(w)

\* the add_line_constraint calls of the one-product types
ProductCalls ==
    \E l \in LineIds(cat), k \in LineConstraintTypes, p \in ProductCodes(cat) :
        \/ OptimizerAddLineConstraint(l, k, [product |-> p])
        \/ ConfigAddLineConstraint(l, k, [product |-> p])

\* those of a block sequence; a line is given at most one
BlockCalls ==
    \E l \in LineIds(cat), b \in BlockSequences(cat) :
        /\ \A o \in DOMAIN cfgs :
               l \in DOMAIN cfgs[o].constraints =>
                   \A i \in DOMAIN cfgs[o].constraints[l] :
                       cfgs[o].constraints[l][i].type # "block_sequence"
        /\ \/ OptimizerAddLineConstraint(l, "block_sequence",
                                         [block_sequence |-> b])
           \/ ConfigAddLineConstraint(l, "block_sequence",
                                      [block_sequence |-> b])

Configure ==
    \/ calls < MaxLineConstraints /\ ProductCalls
    \/ SetLineConstraints

Schedule == BuildModel \/ Solve \/ ExtractSolution

Next == Configure \/ Schedule

\* the catalogues explored together with line constraints
ConfiguredCatalogues == {CatShort}

Init == \E c \in ConfiguredCatalogues : InitFor(c)

\* line constraints, then build, solve and extract
Spec == Init /\ [][Next]_vars

InitUnconstrained == \E c \in Catalogues : InitFor(c)

\* the runs without a line constraint, over every catalogue
SpecUnconstrained == InitUnconstrained /\ [][Schedule]_vars

\* the catalogues explored together with the weights
WeightedCatalogues == {CatSplit, CatTight}

InitWeighted == \E c \in WeightedCatalogues : InitFor(c)

\* the runs under every weight vector
SpecWeighted == InitWeighted /\ [][SetWeights \/ Schedule]_vars

\* the settings and the builds they lead to
SettingsCatalogues == {CatShort, CatScenario}

InitSettings == \E c \in SettingsCatalogues : InitFor(c)

SpecSettings ==
    InitSettings /\ [][(\E r \in TargetArguments : SetUtilizationTarget(r))
                   \/ SetWeights \/ BuildModel]_vars

\* one product needing 3h over three slots of 2h on line 16, the line of
\* the debug branch of extract_solution
CatNight ==
    [name |-> "night", products |-> <<"P1">>, lines |-> <<"16">>,
     max_hours |-> <<20, 20, 20>>,
     rate |-> (<<"P1", "16">> :> 1),
     tracks |-> [l \in {"16"} |-> 1],
     items |-> [p \in {"P1"} |-> 60],
     order |-> [p \in {"P1"} |-> 3],
     setup |-> [l \in {"16"} |-> 0], cleanup |-> [l \in {"16"} |-> 0],
     rules |-> <<>>,
     step |-> 10]

\* the catalogues explored with the solver's tolerance
ToleranceCatalogues == {CatShort, CatNight}

InitTolerance == \E c \in ToleranceCatalogues : InitFor(c)

\* the runs in which a line may also be given a block sequence
SpecBlocks ==
    Init /\ [][(calls < MaxLineConstraints /\ BlockCalls) \/ Next]_vars

\* the configuration alone, over a longer series of calls
SpecConfigure ==
    Init /\ [][(calls < MaxCalls /\ (ProductCalls \/ BlockCalls))
                   \/ SetLineConstraints]_vars

\* the runs in which a solver may also be asked for that does not exist
SpecResolve == Init /\ [][Schedule \/ SolveUnavailable]_vars

\* the runs in which the values read back are only nearly exact
SpecTolerance ==
    InitTolerance
        /\ [][BuildModel \/ SolveWithinTolerance \/ ExtractSolution]_vars

(***************************************************************************)
(* Properties.  Solved: the solver returned Optimal for the built model,   *)
(* so sol is one of its feasible solutions.                                *)
(***************************************************************************)
Solved == model.built = "ok" /\ status = "Optimal"

HasValidLine(p) == \E l \in Lines(cat) : <<p, l>> \in model.valid

\* C1: in every feasible solution, each product with a valid line (and a
\* positive number of items per box) is produced in exactly its order
\* quantity: sum of production_time x rate x tracks x 60 equals order x
\* items per box, neither less nor more
C1_QuantityExact ==
    Solved =>
        \A p \in Products(cat) :
            (HasValidLine(p) /\ GetPackageCount(cat, p) > 0) =>
                ProducedUnits(cat, model, sol.production_time, p)
                    = Hours(cat.order[p] * GetPackageCount(cat, p))

\* the 2h order of the split catalogue made as 1h in each slot
C1_Witness ==
    /\ Solved /\ cat.name = "split"
    /\ sol.production_time[<<"P1", "L1", 1>>] = 10
    /\ sol.production_time[<<"P1", "L1", 2>>] = 10

\* C2: in every feasible solution, for every line and slot, production
\* time of all products plus changeover_time plus cleaning_time is at most
\* the slot's max working hours
C2_SlotTimeWithinMax ==
    Solved =>
        \A lt \in LineSlots(cat) :
            ProductionTimeSum(cat, model, sol.production_time, lt[1], lt[2])
                + sol.changeover_time[lt] + sol.cleaning_time[lt]
                <= GetMaxWorkingHours(cat, lt[2])

\* slot A of the scenario filled to its 10h: 6h + 3h + 1h of setup
C2_Witness ==
    /\ Solved /\ cat.name = "scenario"
    /\ sol.production_time[<<"P1", "L1", 1>>] = 60
    /\ sol.production_time[<<"P2", "L1", 1>>] = 30
    /\ sol.cleaning_time[<<"L1", 1>>] = 10

\* C3 (as stated): in every feasible solution, production_time > 0 implies
\* production = 1, for every valid combination and slot
C3_TimeOnlyWhenProducing ==
    Solved =>
        \A k \in Cells(cat, model) :
            sol.production_time[k] > 0 => sol.production[k] = 1

\* C4 (amended): in every feasible solution, a valid combination whose
\* block fits in the week (required_slots <= slot count) has exactly one
\* block_start equal to 1 among its slot count - required_slots + 1
\* offsets; one whose block does not fit has no block_start variable
C4_OneBlockStartWhenItFits ==
    Solved =>
        \A v \in model.valid :
            LET required_slots == CalculateRequiredTimeSlots(cat, v[1], v[2])
            IN  IF required_slots <= LastSlot(cat)
                THEN /\ Cardinality(model.offsets[v])
                            = LastSlot(cat) - required_slots + 1
                     /\ Cardinality(sol.block_start[v]) = 1
                ELSE /\ model.offsets[v] = {}
                     /\ sol.block_start[v] = {}

\* the block of the split catalogue started at the second of two offsets
C4_Witness ==
    /\ Solved /\ cat.name = "split"
    /\ model.offsets[<<"P1", "L1">>] = {0, 1}
    /\ sol.block_start[<<"P1", "L1">>] = {1}

\* C4 (as stated): in every feasible solution every valid combination has
\* exactly one block_start equal to 1, whatever the order and slot count
C4_OneBlockStartAlways ==
    Solved =>
        \A v \in model.valid : Cardinality(sol.block_start[v]) = 1

\* C5: in every feasible solution, changeover_time[l, t] is the sum over
\* the ordered pairs of distinct products valid on l of changeover x rule
\* time, and is 0 when every indicator of the slot is 0
C5_ChangeoverTimeIsRuleSum ==
    Solved =>
        \A lt \in LineSlots(cat) :
            LET keys == {<<pr[1], pr[2], lt[1], lt[2]>> :
                            pr \in PairsOn(model, lt[1])}
                rule_time == [k \in keys |->
                                 sol.changeover[k]
                                     * GetChangeoverTime(cat, k[1], k[2], k[3])]
            IN  /\ sol.changeover_time[lt] = SumOver(keys, rule_time)
                /\ (\A k \in keys : sol.changeover[k] = 0) =>
                       sol.changeover_time[lt] = 0

\* P1 -> P2 inside slot A of the scenario costs the 0.5h of its rule
C5_Witness ==
    /\ Solved /\ cat.name = "scenario"
    /\ sol.changeover[<<"P1", "P2", "L1", 1>>] = 1
    /\ sol.changeover[<<"P2", "P1", "L1", 1>>] = 0
    /\ sol.changeover_time[<<"L1", 1>>] = 5

\* the last_product constraints the built model's configuration holds for
\* active lines and catalogued products, as (line, product)
AcceptedLastProducts ==
    LET cfg == cfgs[line_constraints]
    IN  {lp \in ConstrainedPairs(cfg) :
            /\ lp[1] \in Lines(cat) /\ lp[2] \in Products(cat)
            /\ \E i \in DOMAIN cfg.constraints[lp[1]] :
                   cfg.constraints[lp[1]][i] =
                       [type |-> "last_product",
                        params |-> [product |-> lp[2]]]}

SequenceIsOne(p, l, t, pos) ==
    <<p, l, t>> \in DOMAIN sol.sequence /\ pos \in sol.sequence[<<p, l, t>>]

\* C6 (amended): once a last_product constraint for X on active line L is
\* accepted and the model built, every feasible solution has
\* sequence[X, L, last slot, MAX_POSITIONS] = 1, provided X has positive
\* throughput on L
C6_LastProductPinnedWhenValid ==
    Solved =>
        \A lp \in AcceptedLastProducts :
            <<lp[2], lp[1]>> \in model.valid =>
                SequenceIsOne(lp[2], lp[1], LastSlot(cat), MAX_POSITIONS)

\* P1 constrained to end line L1, and solved so
C6_Witness ==
    /\ Solved /\ <<"L1", "P1">> \in AcceptedLastProducts
    /\ SequenceIsOne("P1", "L1", LastSlot(cat), MAX_POSITIONS)

\* C6 (as stated): the same for every catalogued X, with or without
\* throughput on L
C6_LastProductPinnedAlways ==
    Solved =>
        \A lp \in AcceptedLastProducts :
            SequenceIsOne(lp[2], lp[1], LastSlot(cat), MAX_POSITIONS)

ZeroOrderProducts ==
    {p \in Products(cat) : cat.order[p] = 0 /\ HasValidLine(p)}

\* C7 (as stated): a product with order quantity 0 and a valid line does
\* not make the model infeasible, and every feasible solution books no
\* production time for it
C7_ZeroOrderIsFeasible ==
    (model.built = "ok" /\ ZeroOrderProducts # {}) =>
        /\ status # "Infeasible"
        /\ Solved =>
               \A k \in Cells(cat, model) :
                   k[1] \in ZeroOrderProducts => sol.production_time[k] = 0

\* P1 made in slot A for 6h and P2 in slot B for 3h, and nothing else
PlacedAThenB ==
    /\ sol.production = (<<"P1", "L1", 1>> :> 1) @@ (<<"P1", "L1", 2>> :> 0)
                        @@ (<<"P2", "L1", 1>> :> 0) @@ (<<"P2", "L1", 2>> :> 1)
    /\ sol.production_time =
           (<<"P1", "L1", 1>> :> 60) @@ (<<"P1", "L1", 2>> :> 0)
           @@ (<<"P2", "L1", 1>> :> 0) @@ (<<"P2", "L1", 2>> :> 30)

\* C8: the scenario (1 line, slots A and B of 10h, P1 needing 6h, P2
\* needing 3h, rule P1 -> P2 = 0.5h) builds a feasible model, and from the
\* solution with P1 in A and P2 in B extract_solution records exactly one
\* changeover event, of 0.5h
C8_ScenarioOneChangeover ==
    cat.name = "scenario" =>
        /\ status # "Infeasible"
        /\ (Solved /\ PlacedAThenB /\ extracted.state # "none") =>
               /\ extracted.state = "ok"
               /\ extracted.changeover_events =
                      <<[line |-> "L1", time_slot |-> 2,
                         from_product |-> "P1", to_product |-> "P2",
                         changeover_time |-> 5]>>

C8_Witness ==
    /\ cat.name = "scenario" /\ Solved /\ PlacedAThenB
    /\ extracted.state = "ok"
    /\ Len(extracted.changeover_events) = 1

C10_BuiltConfigurationKnowsItsCodes ==
    model.built = "ok" =>
        \A lp \in ConstrainedPairs(cfgs[line_constraints]) :
            lp[1] \in Lines(cat) /\ lp[2] \in Products(cat)

\* the weight vectors an optimizer can hold
WeightChoices ==
    {DefaultWeights} \cup SixEntryWeights
        \cup {UpdatedWeights(DefaultWeights, w) : w \in SixEntryWeights}

\* the model build_model would give with the weights w, all else equal
ModelUnder(w) ==
    BuiltModel(cat, cfgs[line_constraints], w, model.target_rate)

ModelSizes(m) ==
    [variables |-> m.variables, constraints |-> m.constraints,
     pools |-> m.pools]

\* C12: build_model called again with unchanged inputs gives a model with
\* the same number of variables, of constraints and of slack variables in
\* each penalty pool as the build before it
C12_RebuildKeepsSizes ==
    [][(/\ model.built = "ok" /\ model'.built = "ok"
        /\ builds' = builds + 1
        /\ UNCHANGED <<cat, cfgs, line_constraints, settings>>
        /\ model'.objective = model.objective
        /\ model'.target_rate = model.target_rate)
           => ModelSizes(model') = ModelSizes(model)]_vars

\* the scenario built a second time: two slacks of soft utilization, two
\* of dynamic utilization and four of max_utilization, as the first time
C12_Witness ==
    /\ builds = 2 /\ model.built = "ok" /\ cat.name = "scenario"
    /\ model.pools.production_underutilization_penalties = 2
    /\ model.pools.dynamic_utilization_penalties = 2
    /\ model.pools.time_normalization_penalties = 4
    /\ model.constraints > 0 /\ model.variables > 0

\* no (product, line) pair of the catalogue has a positive throughput
NoThroughput ==
    \A v \in Products(cat) \X Lines(cat) :
        GetCapacityRate(cat, v[1], v[2]) = 0

\* C13 (as stated): when no (product, line) pair has positive throughput
\* build_model does not fail, the valid combinations are the full cross
\* product of products and active lines, and every variable family,
\* block_start included, is made over it
C13_FallbackBuilds ==
    (builds > 0 /\ NoThroughput) =>
        /\ model.built = "ok"
        /\ model.valid = Products(cat) \X Lines(cat)
        /\ DOMAIN model.offsets = model.valid

\* extract_solution has returned for a solution with a positive
\* changeover_time and no active indicator at some (line, slot)
MetInconsistency ==
    /\ model.built = "ok" /\ status = "Optimal" /\ extracted.state # "none"
    /\ \E lt \in LineSlots(cat) : Inconsistent(cat, model, sol, lt[1], lt[2])

\* C14 (as stated): when extract_solution meets a (line, slot) whose
\* changeover_time is positive while no pairwise indicator is active, it
\* records no event for it, leaves the recorded events as they are and
\* still returns the complete solution
C14_InconsistencyOnlyWarns ==
    MetInconsistency =>
        /\ extracted.state = "ok"
        /\ extracted.production_schedule
               = ProductionSchedule(cat, model, sol)
        /\ extracted.changeover_events
               = ChangeoverEventsFrom(cat, model,
                                      [sol EXCEPT !.residue = {}], 1)

\* the six entries of the weight vectors that callers assign
SixEntries ==
    {"production_time", "changeover_time", "changeover_count",
     "discontinuity", "capacity_violation", "priority_violation"}

\* C15 (as stated): build_model completes for any weight vector that
\* consists of exactly the six named entries; no other entry is required
C15_SixEntriesBuild ==
    [][(BuildModel /\ DOMAIN weights = SixEntries)
           => model'.built = "ok"]_vars

\* C16: after any sequence of set_utilization_target calls the target rate
\* lies in [0.90, 1.0] and is the most recent argument brought into that
\* interval, and a build_model hands that value to the dynamic utilization
\* constraints of the model it builds
C16_TargetClampedAndUsed ==
    /\ [](/\ target_utilization_rate \in 90..100
          /\ target_utilization_rate =
                 IF target_argument < 90 THEN 90
                 ELSE IF target_argument > 100 THEN 100
                 ELSE target_argument)
    /\ [][BuildModel => model'.target_rate = target_utilization_rate]_vars

\* an argument above 1.0 was brought down to 1.0 and a model built with it
C16_Witness ==
    /\ target_argument = 150 /\ target_utilization_rate = 100
    /\ model.built = "ok" /\ model.target_rate = 100
    /\ model.pools.dynamic_utilization_penalties > 0

\* the products with production = 1 on line l in slot t
Producing(l, t) ==
    {p \in ProductsOn(model, l) : sol.production[<<p, l, t>>] = 1}

\* the ordered pairs (p1, p2) of a switch of product on line l at slot t:
\* both made in slot t, or p1 alone in slot t - 1 and p2 alone in slot t
SwitchesAt(l, t) ==
    {pr \in PairsOn(model, l) :
        \/ {pr[1], pr[2]} \subseteq Producing(l, t)
        \/ t > 1 /\ Producing(l, t - 1) = {pr[1]}
                 /\ Producing(l, t) = {pr[2]}}

\* C17 (as stated): in every feasible solution, whenever production on a
\* line switches product at slot t, changeover_count[l, t] = 1 and
\* changeover_time[l, t] is the rule time of that switch
C17_SwitchIsRegistered ==
    Solved =>
        \A lt \in LineSlots(cat) :
            SwitchesAt(lt[1], lt[2]) # {} =>
                /\ sol.changeover_count[lt] = 1
                /\ \E pr \in SwitchesAt(lt[1], lt[2]) :
                       sol.changeover_time[lt]
                           = GetChangeoverTime(cat, pr[1], pr[2], lt[1])

\* the cases of "p1 immediately followed by p2" that hold for the key
\* k = (p1, p2, l, t) under the positions seq: pos for positions pos,
\* pos + 1 of slot t, 0 for the end of slot t - 1 and the start of slot t
FollowCases(seq, k) ==
    {pos \in 1..(MAX_POSITIONS - 1) :
        /\ pos \in seq[<<k[1], k[3], k[4]>>]
        /\ pos + 1 \in seq[<<k[2], k[3], k[4]>>]}
    \cup {i \in {0} :
            /\ k[4] > 1
            /\ MAX_POSITIONS \in seq[<<k[1], k[3], k[4] - 1>>]
            /\ 1 \in seq[<<k[2], k[3], k[4]>>]}

\* C18 (as stated): in every feasible solution changeover[p1, p2, l, t] = 1
\* exactly when p1 is immediately followed by p2, inside slot t at some
\* adjacent positions or across the boundary into slot t; and one case
\* alone is admissible: a model with pairs of products and a feasible
\* solution has a feasible solution in which exactly one case holds
C18_AnyOneCaseAdmissible ==
    /\ Solved =>
           \A k \in ChangeoverKeys(cat, model) :
               sol.changeover[k] = 1 <=> FollowCases(sol.sequence, k) # {}
    /\ (/\ model.built = "ok" /\ status = "Not Solved"
        /\ ChangeoverKeys(cat, model) # {}
        /\ FeasibleSolutions(cat, model) # {})
           => \E a \in FeasibleSolutions(cat, model) :
                  \E k \in ChangeoverKeys(cat, model) :
                      Cardinality(FollowCases(a.sequence, k)) = 1

\* C19 (as stated): in every feasible solution, within each (line, slot)
\* every product with production = 1 occupies exactly one sequence
\* position and every position holds at most one product
C19_OnePositionEach ==
    Solved =>
        /\ \A k \in Cells(cat, model) :
               sol.production[k] = 1 => Cardinality(sol.sequence[k]) = 1
        /\ \A lt \in LineSlots(cat) : \A pos \in Positions :
               Cardinality({p \in ProductsOn(model, lt[1]) :
                               pos \in sol.sequence[<<p, lt[1], lt[2]>>]}) <= 1

\* the pairwise changeover indicators that are 1 on line l in slot t
ActiveIndicators(l, t) ==
    {pr \in PairsOn(model, l) : sol.changeover[<<pr[1], pr[2], l, t>>] = 1}

\* C20: in every feasible solution changeover_count[l, t] is the number of
\* pairwise changeover indicators that are 1 in that (line, slot), and so
\* at most one indicator is active there
C20_CountIsActiveIndicators ==
    Solved =>
        \A lt \in LineSlots(cat) :
            /\ sol.changeover_count[lt]
                   = Cardinality(ActiveIndicators(lt[1], lt[2]))
            /\ Cardinality(ActiveIndicators(lt[1], lt[2])) <= 1

\* one indicator active in the first slot and counted, none in the second
C20_Witness ==
    /\ Solved
    /\ \E l \in Lines(cat) :
           /\ Cardinality(ActiveIndicators(l, 1)) = 1
           /\ sol.changeover_count[<<l, 1>>] = 1
           /\ ActiveIndicators(l, 2) = {}
           /\ sol.changeover_count[<<l, 2>>] = 0

\* the slots in which the combination v = (product, line) has production = 1
ProducingSlots(v) ==
    {t \in Slots(cat) : sol.production[<<v[1], v[2], t>>] = 1}

\* the slots of the block selected for v: required_slots slots from each
\* offset whose block_start is 1
SelectedBlock(v) ==
    {t \in Slots(cat) :
        \E start \in sol.block_start[v] :
            /\ t - 1 >= start
            /\ t - 1 < start + CalculateRequiredTimeSlots(cat, v[1], v[2])}

\* C21 (as stated): in every feasible solution, for each valid combination
\* the slots with production = 1 form one contiguous run, without a gap and
\* without production outside the selected block
C21_ProductionIsOneRun ==
    Solved =>
        \A v \in model.valid :
            /\ \A t1 \in ProducingSlots(v) : \A t2 \in ProducingSlots(v) :
                   \A t \in t1..t2 : t \in ProducingSlots(v)
            /\ ProducingSlots(v) \subseteq SelectedBlock(v)

\* the combination v has production = 1 and at least 1h of production time
\* in every slot of a selected block of required_slots slots
BlockIsProduced(v) ==
    \E start \in sol.block_start[v] :
        \A k \in start..(start + CalculateRequiredTimeSlots(cat, v[1], v[2]) - 1) :
            /\ k + 1 \in Slots(cat)
            /\ sol.production[<<v[1], v[2], k + 1>>] = 1
            /\ sol.production_time[<<v[1], v[2], k + 1>>] >= Hours(1)

\* C22 (amended): in every feasible solution, every valid combination whose
\* block fits in the schedule (required_slots is at most the number of
\* slots), on each line of the product, has production = 1 and at least 1h
\* of production time in each of required_slots consecutive slots from
\* its selected block start
C22_BlockProducedWhenItFits ==
    Solved =>
        \A v \in model.valid :
            CalculateRequiredTimeSlots(cat, v[1], v[2]) <= LastSlot(cat) =>
                BlockIsProduced(v)

\* a product valid on two lines runs its block on both
C22_Witness ==
    /\ Solved
    /\ \E v \in model.valid : \E w \in model.valid :
           /\ v[1] = w[1] /\ v[2] # w[2]
           /\ BlockIsProduced(v) /\ BlockIsProduced(w)

\* C22 (as stated): the same for every valid combination, whether or not
\* its block fits
C22_BlockProducedAlways ==
    Solved => \A v \in model.valid : BlockIsProduced(v)

\* C23 (as stated): in every feasible solution, a product whose required
\* production time is at least the slot's max hours occupies the slot
\* alone: when it has production = 1 in a (line, slot), no other product
\* has production = 1 there
C23_FullSlotProductAlone ==
    Solved =>
        \A lt \in LineSlots(cat) :
            \A p \in ProductsOn(model, lt[1]) :
                (/\ cat.order[p] > 0
                 /\ GetPackageCount(cat, p) > 0
                 /\ Hours(cat.order[p] * GetPackageCount(cat, p))
                        >= GetCapacityRate(cat, p, lt[1])
                               * GetTrackCount(cat, lt[1]) * 60
                               * GetMaxWorkingHours(cat, lt[2])
                 /\ sol.production[<<p, lt[1], lt[2]>>] = 1)
                    => \A q \in ProductsOn(model, lt[1]) \ {p} :
                           sol.production[<<q, lt[1], lt[2]>>] = 0

\* C24 (as stated): for every catalogue with at least one slot the model
\* pins cleaning_time to the setup time at the first slot of each line, to
\* the cleanup time at the last and to 0 in between, and the pins are
\* jointly satisfiable: each cleaning_time variable has a value meeting
\* all the pins on it
C24_PinsAreSatisfiable ==
    (model.built = "ok" /\ Slots(cat) # {}) =>
        /\ \A lt \in LineSlots(cat) :
               \E v \in {GetSetupTime(cat, lt[1]), GetCleanupTime(cat, lt[1]), 0} :
                   SetupAndCleaningAt(cat, lt[1], lt[2], v)
        /\ Solved =>
               \A lt \in LineSlots(cat) :
                   sol.cleaning_time[lt] =
                       IF lt[2] = 1 THEN GetSetupTime(cat, lt[1])
                       ELSE IF lt[2] = LastSlot(cat)
                       THEN GetCleanupTime(cat, lt[1]) ELSE 0

\* C25: for any assignment that satisfies all constraints of the built
\* model, verify_time_constraint_violations returns 0
C25_NoViolationReported ==
    Solved => VerifyTimeConstraintViolations(cat, model, sol) = 0

\* a solution that fills a slot with setup or cleanup time in it to the
\* last minute, and is reported clean
C25_Witness ==
    /\ Solved
    /\ \E lt \in LineSlots(cat) :
           /\ sol.cleaning_time[lt] > 0
           /\ ProductionTimeSum(cat, model, sol.production_time, lt[1], lt[2])
                  + sol.changeover_time[lt] + sol.cleaning_time[lt]
                  = GetMaxWorkingHours(cat, lt[2])
    /\ VerifyTimeConstraintViolations(cat, model, sol) = 0

\* C26 (as stated): for a product whose items per box are 0 or missing,
\* build_model completes without raising, and 1 item per box is used both
\* for the required slots and for the production quantity: every feasible
\* solution makes target_boxes * 1 units of it
C26_DefaultItemsPerBox ==
    \A p \in Products(cat) :
        (/\ model.built # "none"
         /\ \E l \in Lines(cat) : <<p, l>> \in ValidCombinations(cat)
         /\ GetPackageCount(cat, p) = 0)
            => /\ model.built = "ok"
               /\ Solved =>
                      ProducedUnits(cat, model, sol.production_time, p)
                          = Hours(cat.order[p] * 1)

\* C27 (as stated): a line-specific constraint whose addition raised
\* part-way while the model was built is skipped as a whole: the build goes
\* on, and none of the inequalities the failed constraint had added remain
\* in the built model.  Only a block sequence adds anything before it can
\* raise; a one-product constraint raises at its first lookup
C27_FailedConstraintLeavesNothing ==
    model.built = "ok" =>
        LET cfg == cfgs[line_constraints]
        IN  \A l \in GetAllConstrainedLines(cfg) \cap Lines(cat) :
                \A i \in DOMAIN cfg.constraints[l] :
                    LET k == cfg.constraints[l][i]
                        added == AddBlockSequenceConstraint(
                                     cat, model, l, k.params.block_sequence)
                    IN  (k.type = "block_sequence" /\ added.raised) =>
                            added.emitted \cap model.block_cons = {}

\* C28 (as stated): extract_solution yields a schedule only for a model
\* whose most recent solve ended Optimal; before build_model, after
\* build_model but before solve, after a solve that returned false and
\* after a rebuild not solved again it returns an empty result
C28_ScheduleOnlyAfterOptimalSolve ==
    [][ExtractSolution =>
           (extracted'.state # "empty" =>
                model.built # "none" /\ last_solve = "true")]_vars

\* C29 (as stated): in every schedule extract_solution returns, for every
\* (line, slot) the production hours of the slot's entries, plus the
\* changeover_time of all the changeover events recorded for the slot, plus
\* the time of the slot's cleaning event, stay within the slot's max
\* working hours
C29_ScheduleWithinWorkingHours ==
    extracted.state = "ok" =>
        \A lt \in LineSlots(cat) :
            LET entries == IF lt \in DOMAIN extracted.production_schedule
                           THEN extracted.production_schedule[lt] ELSE <<>>
                events == {i \in DOMAIN extracted.changeover_events :
                              /\ extracted.changeover_events[i].line = lt[1]
                              /\ extracted.changeover_events[i].time_slot
                                     = lt[2]}
            IN  SumOver(DOMAIN entries,
                        [i \in DOMAIN entries |-> entries[i].production_time])
                    + SumOver(events,
                              [i \in events |->
                                  extracted.changeover_events[i]
                                      .changeover_time])
                    + sol.cleaning_time[lt]
                    <= GetMaxWorkingHours(cat, lt[2])

====
